---- MODULE Spec2Model ----
(***************************************************************************)
(* Batch extraction orchestrator of the extractor service:                 *)
(*   worker.py    ExtractionWorker (save_uploaded_file, process_file,      *)
(*                process_files, create_extraction_task)                   *)
(*   database.py  create_task, update_task_status,                         *)
(*                increment_processed_files, add_extraction_result         *)
(*   models.py    Task, ExtractionResult, TaskStatus                       *)
(*   app.py       extract_batch, get_task_progress, get_extraction_results *)
(*                (SpecApi); extract_data_from_pdf, the pattern-based      *)
(*                engine (SpecEngine)                                      *)
(*                                                                         *)
(* Scheduling.  Everything runs on one asyncio event loop.  A coroutine    *)
(* gives up the loop only at an await that really suspends:                *)
(*   - process_files suspends in save_uploaded_file (aiofiles runs open,   *)
(*     write and close in an executor thread) and in asyncio.gather;       *)
(*   - process_file never suspends: llm_extract_data_from_pdf is declared  *)
(*     async but contains no await (blocking open(), pdfplumber and the    *)
(*     synchronous OpenAI client), and the database functions are plain    *)
(*     synchronous calls.  A unit therefore runs from its first statement  *)
(*     to the end of its finally block as one step of the loop;            *)
(*   - create_extraction_task contains no await either.                    *)
(* The executor thread performs the staging open() and write() in parallel *)
(* with the loop, so each of them is a step of its own.                    *)
(***************************************************************************)
EXTENDS Integers, Sequences, FiniteSets, TLC

\* ---------------------------------------------------------------- bounds
MaxJobs == 2
MaxDocs == 2
MaxFaults == 1
MaxTotalDocs == 3

JobIds == 1..MaxJobs
DocIdx == 1..MaxDocs
Filenames == {"a.pdf", "b.pdf"}

\* ------------------------------------------------------- models.TaskStatus
PENDING == "pending"
PROCESSING == "processing"
COMPLETED == "completed"
FAILED == "failed"

VARIABLES
    tasks,               \* table tasks: task id -> Task row
    extraction_results,  \* table extraction_results: task id -> its rows, in insertion order
    uploads,             \* upload_dir: filename -> content of the staged file
    files,               \* task id -> the files argument of process_files
    pf,                  \* task id -> position of the process_files coroutine
    units,               \* task id -> document index -> process_file task
    faults,              \* database and staging calls that have raised so far
    response,            \* app.py: the last HTTP response of the batch endpoints
    text,                \* app.py: the document text given to extract_data_from_pdf
    runs                 \* app.py: the BillData returned by each run on text

vars == <<tasks, extraction_results, uploads, files, pf, units, faults,
          response, text, runs>>

\* The orchestrator's state, and the state of the HTTP handlers and of the
\* pattern-based engine that the orchestrator never touches.
orchestrator == <<tasks, extraction_results, uploads, files, pf, units, faults>>
outside == <<response, text, runs>>

\* ------------------------------------------------------------ upload_dir
\* What a path of upload_dir holds: nothing, or bytes written for document
\* idx of task job; complete is FALSE between open(..., 'wb') and the end of
\* a successful write.
Absent == [job |-> 0, idx |-> 0, complete |-> FALSE]
Opened(j, i) == [job |-> j, idx |-> i, complete |-> FALSE]
Written(j, i) == [job |-> j, idx |-> i, complete |-> TRUE]

\* ----------------------------------------------------------------- rows
NoData == [present |-> FALSE, source_file |-> "", fields |-> {}]
NoMessage == ""

Task(total_files, status) ==
    [status |-> status, total_files |-> total_files,
     processed_files |-> 0, failed_files |-> 0, error_message |-> NoMessage]

ExtractionResult(task_id, idx, filename, status, extracted_data, error_message) ==
    [task_id |-> task_id, idx |-> idx, filename |-> filename, status |-> status,
     extracted_data |-> extracted_data, error_message |-> error_message]

\* ------------------------------------------------------------ database.py
\* Mutant of create_task: the row is created already marked Processing.
create_task_processing(t, task_id, total_files) ==
    t @@ (task_id :> Task(total_files, PROCESSING))

create_task(t, task_id, total_files) ==
    t @@ (task_id :> Task(total_files, PENDING))

update_task_status(t, task_id, status, error_message) ==
    IF task_id \in DOMAIN t
    THEN [t EXCEPT ![task_id] =
            [@ EXCEPT !.status = status,
                      !.error_message =
                          IF error_message # NoMessage THEN error_message ELSE @]]
    ELSE t

\* Mutant of Bump: a stale read, the second increment of a counter is lost.
BumpLost(n) == IF n >= 1 THEN n ELSE n + 1

\* processed_files / failed_files += 1
Bump(n) == n + 1

\* Mutant of Finalize: the status is not recomputed.
FinalizeNever(row) == row

\* Resets the status while documents are outstanding.
FinalizeReopen(row) ==
    IF row.processed_files + row.failed_files = row.total_files
    THEN [row EXCEPT !.status = IF row.failed_files = row.total_files
                                 THEN FAILED ELSE COMPLETED]
    ELSE [row EXCEPT !.status = PENDING]

\* "Update task status if all files are processed"
Finalize(row) ==
    IF row.processed_files + row.failed_files = row.total_files
    THEN IF row.failed_files = row.total_files
         THEN [row EXCEPT !.status = FAILED]
         ELSE [row EXCEPT !.status = COMPLETED]
    ELSE row

\* Mutant of increment_processed_files: both counters are incremented.
increment_both(t, task_id, success) ==
    IF task_id \in DOMAIN t
    THEN [t EXCEPT ![task_id] =
            Finalize([@ EXCEPT !.processed_files = Bump(@),
                               !.failed_files = Bump(@)])]
    ELSE t

increment_processed_files(t, task_id, success) ==
    IF task_id \in DOMAIN t
    THEN [t EXCEPT ![task_id] =
            Finalize(IF success
                     THEN [@ EXCEPT !.processed_files = Bump(@)]
                     ELSE [@ EXCEPT !.failed_files = Bump(@)])]
    ELSE t

add_extraction_result(r, task_id, idx, filename, status, extracted_data, error_message) ==
    Append(r, ExtractionResult(task_id, idx, filename, status,
                               extracted_data, error_message))

\* ------------------------------------------------------------------ app.py
\* No request answered yet; no document text given to the engine.
NoResponse == [endpoint |-> "", task_id |-> 0, code |-> 0]
NoText == [bill_year |-> 0, sections |-> <<>>]

\* ---------------------------------------------------------------- helpers
Sum(row) == row.processed_files + row.failed_files

\* calls: how often the unit has invoked llm_extract_data_from_pdf.
NoUnit == [st |-> "idle", src |-> Absent, calls |-> 0]
\* error: the except clause of process_files has run; unrecorded: its
\* update_task_status raised.
Coroutine(pc, i) ==
    [pc |-> pc, i |-> i, orphan |-> FALSE, error |-> FALSE, stage_failed |-> 0,
     unrecorded |-> FALSE]

Init ==
    /\ tasks = <<>>
    /\ extraction_results = [j \in JobIds |-> <<>>]
    /\ uploads = [f \in Filenames |-> Absent]
    /\ files = <<>>
    /\ pf = <<>>
    /\ units = [j \in JobIds |-> [i \in DocIdx |-> NoUnit]]
    /\ faults = 0
    /\ response = NoResponse
    /\ text = NoText
    /\ runs = <<>>

\* ------------------------------------------------- create_extraction_task
\* uuid4 gives every task a fresh id.
FreshId == Cardinality(DOMAIN tasks) + 1

BatchesOf(n) == [1..n -> Filenames]

\* Documents submitted so far, over all tasks.
TotalDocs == LET RECURSIVE Count(_)
                 Count(S) == IF S = {} THEN 0
                             ELSE LET j == CHOOSE x \in S : TRUE
                                  IN tasks[j].total_files + Count(S \ {j})
             IN Count(DOMAIN tasks)

\* The event loop is inside a call that does not return: the extraction call
\* of a unit is synchronous (llm_method.py: no await around the OpenAI
\* client), so while it hangs no coroutine and no handler runs.
LoopBlocked == \E j \in JobIds : \E i \in DocIdx : units[j][i].st = "hung"

create_extraction_task(batch) ==
    /\ ~LoopBlocked
    /\ FreshId \in JobIds
    /\ TotalDocs + Len(batch) <= MaxTotalDocs
    /\ tasks' = create_task(tasks, FreshId, Len(batch))
    /\ files' = files @@ (FreshId :> batch)
    /\ pf' = pf @@ (FreshId :> Coroutine("start", 0))
    /\ UNCHANGED <<extraction_results, uploads, units, faults>>

Submit ==
    \E n \in DocIdx : \E batch \in BatchesOf(n) :
        create_extraction_task(batch) /\ UNCHANGED outside

\* create_task raises (get_db rolls back): no row, no background coroutine;
\* the caller gets the exception.
SubmitStoreFailure ==
    /\ ~LoopBlocked
    /\ FreshId \in JobIds
    /\ faults < MaxFaults
    /\ faults' = faults + 1
    /\ UNCHANGED <<tasks, extraction_results, uploads, files, pf, units>>
    /\ UNCHANGED outside

\* ----------------------------------------------------------- process_files
Scheduled(j) == {i \in DocIdx : units[j][i].st = "scheduled"}

\* Tasks made ready by process_files run before process_files is resumed:
\* create_task queues the unit before the next await queues the resumption.
Resumable(j) == Scheduled(j) = {}

\* except Exception as e: update_task_status(task_id, FAILED, str(e)); the
\* update may itself raise, which ends the coroutine with the row untouched.
\* MaxFaults bounds the failures that start an error path; the update that
\* records the failure is one more call that can raise, and is not counted.
Handler(j, t, message, used, pos) ==
    /\ \/ /\ tasks' = update_task_status(t, j, FAILED, message)
          /\ faults' = faults + used
          /\ pf' = [pf EXCEPT ![j] = [pos EXCEPT !.pc = "done", !.error = TRUE]]
       \/ /\ tasks' = t
          /\ faults' = faults + used
          /\ pf' = [pf EXCEPT ![j] = [pos EXCEPT !.pc = "done", !.error = TRUE,
                                                !.unrecorded = TRUE]]

\* First segment: update_task_status(PROCESSING), then the first staging
\* open() is handed to the executor.
Start(j) ==
    /\ ~LoopBlocked
    /\ j \in DOMAIN pf
    /\ pf[j].pc = "start"
    /\ \/ /\ tasks' = update_task_status(tasks, j, PROCESSING, NoMessage)
          /\ pf' = [pf EXCEPT ![j] = Coroutine("open", 1)]
          /\ UNCHANGED faults
       \/ /\ faults < MaxFaults
          /\ Handler(j, tasks, "store error", 1, pf[j])
    /\ UNCHANGED <<extraction_results, uploads, files, units>>
    /\ UNCHANGED outside

\* save_uploaded_file, executor side of aiofiles.open(filepath, 'wb'):
\* creates or truncates upload_dir/filename.
StageOpen(j) ==
    /\ j \in DOMAIN pf
    /\ pf[j].pc = "open"
    /\ LET i == pf[j].i
           filename == files[j][i]
       IN \/ /\ uploads' = [uploads EXCEPT ![filename] = Opened(j, i)]
             /\ pf' = [pf EXCEPT ![j] = [@ EXCEPT !.pc = "write", !.orphan = FALSE]]
             /\ UNCHANGED <<tasks, faults>>
          \/ /\ faults < MaxFaults
             /\ Resumable(j)
             /\ ~LoopBlocked
             /\ Handler(j, tasks, "staging error", 1, [pf[j] EXCEPT !.stage_failed = i])
             /\ UNCHANGED uploads
    /\ UNCHANGED <<extraction_results, files, units>>
    /\ UNCHANGED outside

\* save_uploaded_file, f.write(file_data) and close; then
\* asyncio.create_task(process_file(...)) and the next loop iteration (the
\* next open, or asyncio.gather after the last document).
StageWrite(j) ==
    /\ j \in DOMAIN pf
    /\ pf[j].pc = "write"
    /\ Resumable(j)
    /\ ~LoopBlocked
    /\ LET i == pf[j].i
           filename == files[j][i]
       IN \/ /\ uploads' = IF pf[j].orphan THEN uploads
                           ELSE [uploads EXCEPT ![filename] = Written(j, i)]
             /\ units' = [units EXCEPT ![j][i].st = "scheduled"]
             /\ pf' = [pf EXCEPT ![j] =
                          IF i < Len(files[j])
                          THEN [@ EXCEPT !.pc = "open", !.i = i + 1, !.orphan = FALSE]
                          ELSE [@ EXCEPT !.pc = "gather", !.orphan = FALSE]]
             /\ UNCHANGED <<tasks, faults>>
          \/ /\ faults < MaxFaults
             /\ Handler(j, tasks, "staging error", 1, [pf[j] EXCEPT !.stage_failed = i])
             /\ UNCHANGED <<uploads, units>>
    /\ UNCHANGED <<extraction_results, files>>
    /\ UNCHANGED outside

\* ------------------------------------------------------------ process_file
StoreCalls == {"add_completed", "inc_processed", "add_failed", "inc_failed"}

\* str(e) of the exception that reaches the except clause.
ErrorMessageEmpty(extracted, serialized) == NoMessage

ErrorMessage(extracted, serialized) ==
    IF ~extracted THEN "extraction failed"
    ELSE IF ~serialized THEN "Data serialization failed: json_err"
    ELSE "store error"

\* Fields of the record the collaborator returns (two of BillData's): a string,
\* which always encodes, and a list of nested records, which may not.
Fields == {"account_number", "meters"}
Fallible == {"meters"}

\* What the encoder does with a record: jsonable_encoder(extracted_data)
\* succeeds or raises json_err; in the fallback, bad are the fields whose own
\* jsonable_encoder({key: value}) raises, and the fallback as a whole
\* succeeds or raises recovery_err.
Encoded == [json |-> "ok", bad |-> {}, recovery |-> "ok"]
Serializations ==
    {Encoded} \cup [json : {"error"}, bad : SUBSET Fallible, recovery : {"ok", "error"}]

\* safe_data: the failing fields are set to None, the others keep their value.
safe_data_none(bad) == {}

safe_data(bad) == Fields \ bad

\* finally: os.remove(filepath).  Removing the path leaves a writer that has
\* the file open with a handle to an unlinked file.
Unlink(j, i, filename) ==
    /\ uploads' = [uploads EXCEPT ![filename] = Absent]
    /\ pf' = [k \in DOMAIN pf |->
                IF /\ pf[k].pc = "write"
                   /\ files[k][pf[k].i] = filename
                THEN [pf[k] EXCEPT !.orphan = TRUE]
                ELSE pf[k]]

\* One unit, from llm_extract_data_from_pdf to the finally block.
\*   llm    the collaborator returns a record or raises (no text, API error,
\*          invalid response)
\*   ser    jsonable_encoder succeeds, or fails and the per-field fallback
\*          succeeds, or both fail
\*   fault  the database calls that raise
process_file(j, i, llm, ser, fault) ==
    LET filename == files[j][i]
        content == uploads[filename]
        readable == content.complete
        extracted == readable /\ llm = "record"
        serialized == extracted /\ (ser.json = "ok" \/ ser.recovery = "ok")
        rowC == serialized /\ "add_completed" \notin fault
        incC == rowC /\ "inc_processed" \notin fault
        rowF == ~incC /\ "add_failed" \notin fault
        incF == rowF /\ "inc_failed" \notin fault
        reached == (IF serialized THEN {"add_completed"} ELSE {})
                   \cup (IF rowC THEN {"inc_processed"} ELSE {})
                   \cup (IF ~incC THEN {"add_failed"} ELSE {})
                   \cup (IF rowF THEN {"inc_failed"} ELSE {})
        data == [present |-> TRUE, source_file |-> filename,
                 fields |-> IF ser.json = "ok" THEN Fields ELSE safe_data(ser.bad)]
        message == ErrorMessage(extracted, serialized)
        r1 == IF rowC
              THEN add_extraction_result(extraction_results[j], j, i, filename,
                                         COMPLETED, data, NoMessage)
              ELSE extraction_results[j]
        r2 == IF rowF
              THEN add_extraction_result(r1, j, i, filename, FAILED, NoData, message)
              ELSE r1
        t1 == IF incC THEN increment_processed_files(tasks, j, TRUE) ELSE tasks
        t2 == IF incF THEN increment_processed_files(t1, j, FALSE) ELSE t1
    IN /\ fault \subseteq reached
       /\ (~readable => llm = "error")
       /\ (~extracted => ser = Encoded)
       /\ faults + Cardinality(fault) <= MaxFaults
       /\ faults' = faults + Cardinality(fault)
       /\ extraction_results' = [extraction_results EXCEPT ![j] = r2]
       /\ tasks' = t2
       /\ units' = [units EXCEPT ![j][i] =
                       [st |-> IF incC THEN "completed"
                               ELSE IF incF THEN "failed" ELSE "raised",
                        src |-> content,
                        calls |-> units[j][i].calls + 1]]
       /\ Unlink(j, i, filename)
       /\ UNCHANGED files
       /\ UNCHANGED outside

RunUnit(j, i) ==
    /\ units[j][i].st = "scheduled"
    /\ ~LoopBlocked
    /\ \E llm \in {"record", "error"}, ser \in Serializations,
          fault \in SUBSET StoreCalls :
          process_file(j, i, llm, ser, fault)

\* await asyncio.gather(*tasks): returns when every unit has finished, raises
\* the exception of a unit that raised.
GatherRetry(j) ==
    /\ j \in DOMAIN pf
    /\ pf[j].pc = "gather"
    /\ Resumable(j)
    /\ ~LoopBlocked
    /\ IF \E i \in DocIdx : units[j][i].st = "failed"
       THEN /\ units' = [units EXCEPT ![j] =
                           [i \in DocIdx |->
                               IF units[j][i].st = "failed"
                               THEN [units[j][i] EXCEPT !.st = "scheduled"]
                               ELSE units[j][i]]]
            /\ UNCHANGED <<tasks, faults, pf>>
       ELSE /\ pf' = [pf EXCEPT ![j].pc = "done"]
            /\ UNCHANGED <<tasks, faults, units>>
    /\ UNCHANGED <<extraction_results, uploads, files>>
    /\ UNCHANGED outside

Gather(j) ==
    /\ j \in DOMAIN pf
    /\ pf[j].pc = "gather"
    /\ Resumable(j)
    /\ ~LoopBlocked
    /\ IF \E i \in DocIdx : units[j][i].st = "raised"
       THEN Handler(j, tasks, "store error", 0, pf[j])
       ELSE /\ pf' = [pf EXCEPT ![j].pc = "done"]
            /\ UNCHANGED <<tasks, faults>>
    /\ UNCHANGED <<extraction_results, uploads, files, units>>
    /\ UNCHANGED outside

\* The extraction call of a unit is entered and never returns.
Hang(j, i) ==
    /\ units[j][i].st = "scheduled"
    /\ ~LoopBlocked
    /\ units' = [units EXCEPT ![j][i].st = "hung", ![j][i].calls = @ + 1]
    /\ UNCHANGED <<tasks, extraction_results, uploads, files, pf, faults>>
    /\ UNCHANGED outside

Next ==
    \/ Submit
    \/ SubmitStoreFailure
    \/ \E j \in JobIds : Start(j)
    \/ \E j \in JobIds : StageOpen(j)
    \/ \E j \in JobIds : StageWrite(j)
    \/ \E j \in JobIds : \E i \in DocIdx : RunUnit(j, i)
    \/ \E j \in JobIds : Gather(j)

Spec == Init /\ [][Next]_vars

\* The orchestrator with extraction calls that may hang.
NextHang ==
    \/ Next
    \/ \E j \in JobIds : \E i \in DocIdx : Hang(j, i)

SpecHang == Init /\ [][NextHang]_vars

\* ======================================================= app.py: endpoints
\* Task ids a client may ask for: those the service can hand out, and one it
\* never hands out.
UnknownId == MaxJobs + 1
TaskIds == JobIds \cup {UnknownId}

HTTP_OK == 200
HTTP_BAD_REQUEST == 400
HTTP_NOT_FOUND == 404
HTTP_SERVER_ERROR == 500

Response(endpoint, task_id, code) ==
    [endpoint |-> endpoint, task_id |-> task_id, code |-> code]

\* database.get_task_status: nothing when no row has the id, else the row.
NotFound == [found |-> FALSE]
get_task_status_any(t, task_id) == [found |-> TRUE]

get_task_status(t, task_id) ==
    IF task_id \in DOMAIN t THEN [found |-> TRUE] @@ t[task_id] ELSE NotFound

\* GET /api/tasks/{task_id}/status. The read is taken to succeed: a read that
\* raises is answered 500 by the framework and changes no row either.
get_task_progress(task_id) ==
    /\ LET status == get_task_status(tasks, task_id)
       IN response' = Response("status", task_id,
                               IF ~status.found THEN HTTP_NOT_FOUND ELSE HTTP_OK)
    /\ UNCHANGED <<orchestrator, text, runs>>

\* GET /api/tasks/{task_id}/results.
get_extraction_results(task_id) ==
    /\ LET status == get_task_status(tasks, task_id)
       IN response' = Response("results", task_id,
                               IF ~status.found THEN HTTP_NOT_FOUND ELSE HTTP_OK)
    /\ UNCHANGED <<orchestrator, text, runs>>

\* Uploaded file names: the PDFs, and one file that is not a PDF.
NotPdf == "notes.txt"
Suffix == [f \in Filenames |-> ".pdf"] @@ (NotPdf :> ".txt")
IsPdf(filename) == Suffix[filename] = ".pdf"

Uploads == UNION {[1..n -> Filenames \cup {NotPdf}] : n \in 0..MaxDocs}

\* POST /api/extract/batch. The non-PDF HTTPException(400) is raised inside
\* the try block, whose `except Exception` turns it into a 500.
extract_batch(upload) ==
    IF upload = <<>>
    THEN /\ response' = Response("batch", 0, HTTP_BAD_REQUEST)
         /\ UNCHANGED <<orchestrator, text, runs>>
    ELSE IF \E k \in DOMAIN upload : ~IsPdf(upload[k])
    THEN /\ response' = Response("batch", 0, HTTP_SERVER_ERROR)
         /\ UNCHANGED <<orchestrator, text, runs>>
    ELSE \/ /\ create_extraction_task(upload)
            /\ response' = Response("batch", FreshId, HTTP_OK)
            /\ UNCHANGED <<text, runs>>
         \/ /\ FreshId \in JobIds
            /\ faults < MaxFaults
            /\ faults' = faults + 1
            /\ response' = Response("batch", 0, HTTP_SERVER_ERROR)
            /\ UNCHANGED <<tasks, extraction_results, uploads, files, pf, units>>
            /\ UNCHANGED <<text, runs>>

NextApi ==
    \/ \E upload \in Uploads : extract_batch(upload)
    \/ \E task_id \in TaskIds : get_task_progress(task_id)
    \/ \E task_id \in TaskIds : get_extraction_results(task_id)
    \/ \E j \in JobIds : Start(j)
    \/ \E j \in JobIds : StageOpen(j)
    \/ \E j \in JobIds : StageWrite(j)
    \/ \E j \in JobIds : \E i \in DocIdx : RunUnit(j, i)
    \/ \E j \in JobIds : Gather(j)

\* The endpoints are exercised against a store and an upload directory whose
\* failures are over (they are Spec's subject): the service as constructed,
\* with the failure budget spent.
InitApi ==
    /\ tasks = <<>>
    /\ extraction_results = [j \in JobIds |-> <<>>]
    /\ uploads = [f \in Filenames |-> Absent]
    /\ files = <<>>
    /\ pf = <<>>
    /\ units = [j \in JobIds |-> [i \in DocIdx |-> NoUnit]]
    /\ faults = MaxFaults
    /\ response = NoResponse
    /\ text = NoText
    /\ runs = <<>>

SpecApi == InitApi /\ [][NextApi]_vars

\* ============================================= app.py: pattern-based engine
\* A document text, as far as the meter extraction reads it: the bill date
\* that parse_date gets out of it (None when no pattern matches or no format
\* parses), and the sections that follow each "Meter Read Details:" heading.
\* A section is the capture of `Meter\s*#\s*([A-Za-z0-9-]+)` (a sequence of
\* characters, empty when the pattern does not match), the three numbers of
\* the readings line (empty when the line is not there), and whether a
\* "Service Period mm/dd - mm/dd" line is there.
MaxSections == 4
MaxRuns == 2

None == -1
Digits == {"1", "2", "3", "4", "5", "6", "7"}
Letters == {"A", "B"}

\* The clock's year when a run executes, and the bill dates (by year).
Years == {2023, 2024}
BillDates == {None, 2023}

MeterNumbers == { <<>>,
                  <<"1", "2">>,
                  <<"A", "B", "1", "2", "3", "4", "5">>,
                  <<"7", "6", "5", "4", "3", "2", "1">> }
Readings == { <<>>, <<100, 200, 100>> }
Sections == [meter : MeterNumbers, readings : Readings, period : BOOLEAN]
Texts == [bill_date : BillDates,
          sections : UNION {[1..n -> Sections] : n \in 0..MaxSections}]

\* Rejects a number whose letters are exactly half of it.
is_valid_meter_number_half(meter_num) ==
    IF meter_num = <<>> \/ Len(meter_num) < 5 \/ Len(meter_num) > 15
    THEN FALSE
    ELSE IF ~\E k \in DOMAIN meter_num : meter_num[k] \in Digits
    THEN FALSE
    ELSE LET letter_count ==
                 Cardinality({k \in DOMAIN meter_num : meter_num[k] \in Letters})
         IN ~(2 * letter_count >= Len(meter_num))

is_valid_meter_number(meter_num) ==
    IF meter_num = <<>> \/ Len(meter_num) < 5 \/ Len(meter_num) > 15
    THEN FALSE
    ELSE IF ~\E k \in DOMAIN meter_num : meter_num[k] \in Digits
    THEN FALSE
    ELSE LET letter_count ==
                 Cardinality({k \in DOMAIN meter_num : meter_num[k] \in Letters})
         IN ~(2 * letter_count > Len(meter_num))

\* The readings line gives all three numbers or none of them.
extract_meter_readings(section) ==
    IF section.readings # <<>> THEN section.readings ELSE <<None, None, None>>

\* Python truthiness of an Optional[float]: None and 0.0 are false.
Truthy(x) == x # None /\ x # 0

MeterData(meter_num, section, bill_date, now) ==
    LET r == extract_meter_readings(section)
        year == IF bill_date # None THEN bill_date ELSE now
    IN [meter_number |-> meter_num,
        previous_reading |-> r[1],
        meter_reading |-> r[2],
        usage |-> r[3],
        previous_read_date |-> IF section.period THEN year ELSE None,
        read_date |-> IF section.period THEN year ELSE None]

\* all(required_fields): a meter number and some truthy reading.
RetainedAlways(meter) == TRUE

Retained(meter) ==
    /\ meter.meter_number # <<>>
    /\ \/ Truthy(meter.previous_reading)
       \/ Truthy(meter.meter_reading)
       \/ Truthy(meter.usage)

\* The loop breaks at i >= 3.
ProcessedAll(meter_sections) == meter_sections

Processed(meter_sections) ==
    SubSeq(meter_sections, 1, IF Len(meter_sections) < 3 THEN Len(meter_sections) ELSE 3)

MeterOf(bill_date, now, section) == MeterData(section.meter, section, bill_date, now)

extract_data_from_pdf(t, now) ==
    LET Accepted(section) == section.meter # <<>> /\ is_valid_meter_number(section.meter)
        meter_sections == SelectSeq(t.sections, Accepted)
        processed == Processed(meter_sections)
        built == [k \in DOMAIN processed |-> MeterOf(t.bill_date, now, processed[k])]
    IN [bill_date |-> t.bill_date, meters |-> SelectSeq(built, Retained)]

InitEngine ==
    /\ tasks = <<>>
    /\ extraction_results = [j \in JobIds |-> <<>>]
    /\ uploads = [f \in Filenames |-> Absent]
    /\ files = <<>>
    /\ pf = <<>>
    /\ units = [j \in JobIds |-> [i \in DocIdx |-> NoUnit]]
    /\ faults = 0
    /\ response = NoResponse
    /\ text \in Texts
    /\ runs = <<>>

\* One run of the engine on the text, at some time.
Extract(now) ==
    /\ Len(runs) < MaxRuns
    /\ runs' = Append(runs, extract_data_from_pdf(text, now))
    /\ UNCHANGED <<orchestrator, response, text>>

NextEngine == \E now \in Years : Extract(now)

SpecEngine == InitEngine /\ [][NextEngine]_vars

\* ------------------------------------------------ candidate meter numbers
\* Captures of [A-Za-z0-9-]+ by their make-up: d digits, then a letters, then
\* h dashes, up to one character more than the longest number accepted.
MaxMeterLen == 16

Candidate(d, a, h) ==
    [k \in 1..(d + a + h) |-> IF k <= d THEN "1" ELSE IF k <= d + a THEN "A" ELSE "-"]

Candidates ==
    {Candidate(d, a, h) : d \in 0..MaxMeterLen, a \in 0..MaxMeterLen, h \in 0..2}

\* A text with one section: a candidate number and a readings line.
InitMeter ==
    /\ tasks = <<>>
    /\ extraction_results = [j \in JobIds |-> <<>>]
    /\ uploads = [f \in Filenames |-> Absent]
    /\ files = <<>>
    /\ pf = <<>>
    /\ units = [j \in JobIds |-> [i \in DocIdx |-> NoUnit]]
    /\ faults = 0
    /\ response = NoResponse
    /\ \E c \in Candidates : \E b \in BillDates : \E p \in BOOLEAN :
           /\ Len(c) <= MaxMeterLen
           /\ text = [bill_date |-> b,
                      sections |-> <<[meter |-> c, readings |-> <<100, 200, 100>>,
                                      period |-> p]>>]
    /\ runs = <<>>

SpecMeter == InitMeter /\ [][NextEngine]_vars

\* --------------------------------------------------------- readings of 0
\* Texts whose readings lines also carry zeros: "0 Actual 0 Actual 0" is
\* matched by (\d+)\s+(?:Actual|Estimated)\s+(\d+)... like any other line,
\* and parse_float gives 0.0 for it.
MaxZeroSections == 2

ReadingsWithZero == { <<>>, <<0, 0, 0>>, <<0, 100, 100>>, <<100, 200, 100>> }

InitZero ==
    /\ tasks = <<>>
    /\ extraction_results = [j \in JobIds |-> <<>>]
    /\ uploads = [f \in Filenames |-> Absent]
    /\ files = <<>>
    /\ pf = <<>>
    /\ units = [j \in JobIds |-> [i \in DocIdx |-> NoUnit]]
    /\ faults = 0
    /\ response = NoResponse
    /\ \E b \in BillDates : \E n \in 0..MaxZeroSections :
           \E ss \in [1..n -> [meter : MeterNumbers, readings : ReadingsWithZero,
                                period : BOOLEAN]] :
               text = [bill_date |-> b, sections |-> ss]
    /\ runs = <<>>

SpecZero == InitZero /\ [][NextEngine]_vars

\* ----------------------------------------------------- extract_field_value
\* A text, as far as one logical field reads it: for every pattern of the
\* field's ordered list, the captures (group 1) of its matches in text order.
\* A capture of `([^\n]+)` may be blank: strip() turns it into "".
MaxPatterns == 2
MaxMatches == 2

Captures == {" ", "01/02/2023 ", "03/04/2023"}
strip == (" " :> "") @@ ("01/02/2023 " :> "01/02/2023") @@ ("03/04/2023" :> "03/04/2023")

\* A blank capture ends the text (`[:.\s]*` before the group takes up any
\* line break), so it is the last match of its pattern.
FieldTexts ==
    {m \in [1..MaxPatterns -> UNION {[1..n -> Captures] : n \in 0..MaxMatches}] :
        \A p \in DOMAIN m : \A k \in DOMAIN m[p] : m[p][k] = " " => k = Len(m[p])}

\* Optional[str]: no value, or a value.
NoValue == <<>>
Some(value) == <<value>>

\* The first match of the first pattern that matches at all.
extract_field_value(matches) ==
    LET hit == {p \in DOMAIN matches : matches[p] # <<>>}
    IN IF hit = {} THEN NoValue
       ELSE LET pattern == CHOOSE p \in hit : \A q \in hit : p <= q
            IN Some(strip[matches[pattern][1]])

InitField ==
    /\ tasks = <<>>
    /\ extraction_results = [j \in JobIds |-> <<>>]
    /\ uploads = [f \in Filenames |-> Absent]
    /\ files = <<>>
    /\ pf = <<>>
    /\ units = [j \in JobIds |-> [i \in DocIdx |-> NoUnit]]
    /\ faults = 0
    /\ response = NoResponse
    /\ text \in FieldTexts
    /\ runs = <<>>

ExtractField ==
    /\ runs = <<>>
    /\ runs' = <<extract_field_value(text)>>
    /\ UNCHANGED <<orchestrator, response, text>>

SpecField == InitField /\ [][ExtractField]_vars

\* ================================================================ claims
Docs(j) == 1..Len(files[j])
Rows(j) == extraction_results[j]
RowsOf(j, i) == {k \in DOMAIN Rows(j) : Rows(j)[k].idx = i}
RowsWith(j, status) == {k \in DOMAIN Rows(j) : Rows(j)[k].status = status}
UnitsIn(j, st) == {i \in Docs(j) : units[j][i].st = st}
Counted(j) == UnitsIn(j, "completed") \cup UnitsIn(j, "failed")
Terminal(status) == status \in {COMPLETED, FAILED}
\* process_files has returned and none of its units is still to run.
JobOver(j) == pf[j].pc = "done" /\ Scheduled(j) = {}
DistinctNames(j) == \A i1, i2 \in Docs(j) : files[j][i1] = files[j][i2] => i1 = i2

\* C1: for every job processed_files + failed_files never exceeds
\* total_files, and no step makes the sum smaller.
C1_CountersBoundedMonotone ==
    [][\A j \in DOMAIN tasks' :
          /\ Sum(tasks'[j]) <= tasks'[j].total_files
          /\ j \in DOMAIN tasks => Sum(tasks'[j]) >= Sum(tasks[j])]_vars

C1_Witness ==
    \E j \in DOMAIN tasks : tasks[j].total_files = 2 /\ Sum(tasks[j]) = 2

\* C2 as stated: once a job has left Pending it is Processing exactly when
\* processed_files + failed_files < total_files and terminal exactly when the
\* sum equals total_files.
C2_StatusIffSum ==
    \A j \in DOMAIN tasks :
        tasks[j].status # PENDING =>
            /\ tasks[j].status = PROCESSING <=> Sum(tasks[j]) < tasks[j].total_files
            /\ Terminal(tasks[j].status) <=> Sum(tasks[j]) = tasks[j].total_files

\* C2 as amended: a Processing job has sum < total_files, a job whose sum
\* equals total_files is terminal, a Completed job has sum = total_files, and
\* a job is terminal with sum < total_files only as Failed, set by the error
\* handler of process_files.
C2_StatusFollowsSum ==
    \A j \in DOMAIN tasks :
        tasks[j].status # PENDING =>
            /\ tasks[j].status = PROCESSING => Sum(tasks[j]) < tasks[j].total_files
            /\ Sum(tasks[j]) = tasks[j].total_files => Terminal(tasks[j].status)
            /\ tasks[j].status = COMPLETED => Sum(tasks[j]) = tasks[j].total_files
            /\ (tasks[j].status = FAILED /\ Sum(tasks[j]) < tasks[j].total_files)
                   => pf[j].error

C2_Witness ==
    \E j, k \in DOMAIN tasks :
        /\ tasks[j].status = FAILED /\ Sum(tasks[j]) < tasks[j].total_files
        /\ tasks[k].status = COMPLETED /\ Sum(tasks[k]) = tasks[k].total_files

\* C3, for jobs in which a document has succeeded: the job is Failed iff
\* failed_files = total_files (so a job with a successful document is never
\* Failed), and once the job is over with failed_files < total_files it is
\* Completed.
C3_FailedIffAllFailed ==
    \A j \in DOMAIN tasks :
        tasks[j].processed_files >= 1 =>
            /\ tasks[j].status = FAILED <=> tasks[j].failed_files = tasks[j].total_files
            /\ (JobOver(j) /\ tasks[j].failed_files < tasks[j].total_files)
                   => tasks[j].status = COMPLETED

\* C4: when create_extraction_task returns (process_files is queued and has
\* not run), the row has total_files = len(files), status Pending and both
\* counters 0, and no unit of the job has been created, has run or has
\* written a row; the job becomes Processing only in a later step.
C4_SubmitReturnsPending ==
    \A j \in DOMAIN pf :
        pf[j].pc = "start" =>
            /\ j \in DOMAIN tasks
            /\ tasks[j].status = PENDING
            /\ tasks[j].total_files = Len(files[j])
            /\ tasks[j].processed_files = 0
            /\ tasks[j].failed_files = 0
            /\ \A i \in DocIdx : units[j][i].st = "idle"
            /\ Rows(j) = <<>>

\* A submission has returned while a unit of an earlier job is still queued.
C4_Witness ==
    \E j, k \in DOMAIN pf : pf[j].pc = "start" /\ Scheduled(k) # {}

\* C5: once the N units of a job have all succeeded or failed, k >= 1 of
\* them succeeding, the job is Completed with processed_files = k,
\* failed_files = N - k and exactly N rows, k Completed and N - k Failed.
C5_BatchOutcome ==
    \A j \in DOMAIN tasks :
        LET N == Len(files[j])
            k == Cardinality(UnitsIn(j, "completed"))
        IN (Cardinality(Counted(j)) = N /\ k >= 1) =>
               /\ tasks[j].status = COMPLETED
               /\ tasks[j].processed_files = k
               /\ tasks[j].failed_files = N - k
               /\ Len(Rows(j)) = N
               /\ Cardinality(RowsWith(j, COMPLETED)) = k
               /\ Cardinality(RowsWith(j, FAILED)) = N - k

\* C6: when a document of a job has failed (at staging or in its unit) and
\* the job is over, every other document of the batch has been staged and
\* run, and has its own row and counter increment unless its own database
\* write raised.
C6_FailureDoesNotAbortOthers ==
    \A j \in DOMAIN pf :
        (JobOver(j) /\ (pf[j].stage_failed # 0
                        \/ UnitsIn(j, "failed") \cup UnitsIn(j, "raised") # {})) =>
            \A i \in Docs(j) \ {pf[j].stage_failed} :
                /\ units[j][i].st \in {"completed", "failed", "raised"}
                /\ units[j][i].st # "raised" => RowsOf(j, i) # {}

\* C7: once a job is over, upload_dir holds no file written for that job.
C7_NoStagedFileRemains ==
    \A j \in DOMAIN pf :
        JobOver(j) => \A f \in Filenames : uploads[f].job # j

\* C8: no document has two rows, and a document whose unit has counted it
\* has exactly one.
C8_OneRowPerDocument ==
    \A j \in DOMAIN files : \A i \in Docs(j) :
        /\ Cardinality(RowsOf(j, i)) <= 1
        /\ i \in Counted(j) => Cardinality(RowsOf(j, i)) = 1

\* C9: each job's counters count its own units, and every unit of a job
\* (whose own filenames are distinct) extracted the bytes staged for its own
\* document, whatever the other job stages or deletes.
C9_NoCrossJobInterference ==
    \A j \in DOMAIN tasks :
        /\ tasks[j].processed_files = Cardinality(UnitsIn(j, "completed"))
        /\ tasks[j].failed_files = Cardinality(UnitsIn(j, "failed"))
        /\ DistinctNames(j) =>
               \A i \in Docs(j) :
                   units[j][i].st \in {"completed", "failed", "raised"}
                       => units[j][i].src = Written(j, i)

\* C10: no increment is lost: after m units of a job have completed their
\* increment, processed_files + failed_files = m, and when the sum reaches
\* total_files the status is the one computed from the final counters.
C10_NoLostIncrement ==
    \A j \in DOMAIN tasks :
        /\ Sum(tasks[j]) = Cardinality(Counted(j))
        /\ Sum(tasks[j]) = tasks[j].total_files =>
               tasks[j].status = IF tasks[j].failed_files = tasks[j].total_files
                                 THEN FAILED ELSE COMPLETED

C10_Witness ==
    \E j \in DOMAIN tasks :
        /\ Cardinality(Counted(j)) = 2
        /\ tasks[j].processed_files = 1
        /\ tasks[j].failed_files = 1
\* C11: asking for the status or the results of a task id that has no row is
\* answered 404, and the request changes no task row and no result row.
C11_UnknownIdNotFound ==
    [][\A task_id \in TaskIds :
          (/\ task_id \notin DOMAIN tasks
           /\ get_task_progress(task_id) \/ get_extraction_results(task_id))
          => /\ response'.code = HTTP_NOT_FOUND
             /\ response'.task_id = task_id
             /\ tasks' = tasks
             /\ extraction_results' = extraction_results]_vars

\* An unknown id was asked for while another job had rows.
C11_Witness ==
    /\ response.endpoint = "results"
    /\ response.code = HTTP_NOT_FOUND
    /\ response.task_id \notin DOMAIN tasks
    /\ \E j \in DOMAIN tasks : Len(extraction_results[j]) >= 1

\* C12: a batch upload that is empty or holds a file that is not a PDF is
\* answered 400, and is rejected before any job or coroutine is created.
C12_BadBatchRejected400 ==
    [][\A upload \in Uploads :
          (/\ upload = <<>> \/ \E k \in DOMAIN upload : ~IsPdf(upload[k])
           /\ extract_batch(upload))
          => /\ response'.code = HTTP_BAD_REQUEST
             /\ tasks' = tasks
             /\ pf' = pf]_vars

\* C13: two runs of the pattern-based engine on the same text return the
\* same record, field for field, whenever they are executed.
C13_Deterministic ==
    \A a, b \in DOMAIN runs : runs[a] = runs[b]

\* The sections whose meter number is valid, the first three of them, and
\* those that come with a readings line.
AcceptedAt(t) == {k \in DOMAIN t.sections : is_valid_meter_number(t.sections[k].meter)}
FirstAccepted(t) ==
    {k \in AcceptedAt(t) : Cardinality({h \in AcceptedAt(t) : h <= k}) <= 3}
WithReadings(t) == {k \in DOMAIN t.sections : t.sections[k].readings # <<>>}

\* f places every meter of the record on a section of the text it was read
\* from, in text order.
Placement(f, meters, t) ==
    /\ \A n \in DOMAIN meters :
           /\ meters[n].meter_number = t.sections[f[n]].meter
           /\ <<meters[n].previous_reading, meters[n].meter_reading, meters[n].usage>>
                  = t.sections[f[n]].readings
           /\ (meters[n].read_date # None) = t.sections[f[n]].period
    /\ \A n1, n2 \in DOMAIN meters : n1 < n2 => f[n1] < f[n2]

\* C14: a record holds at most 3 meters; they come from the first 3 accepted
\* sections only (a later accepted section gives none, even when an earlier
\* accepted one was not retained), in the order of the text.
C14_AtMostThreeInOrder ==
    \A a \in DOMAIN runs :
        LET meters == runs[a].meters
        IN /\ Len(meters) <= 3
           /\ \E f \in [DOMAIN meters -> FirstAccepted(text)] :
                  Placement(f, meters, text)

\* Four accepted sections, the first without readings, the fourth with: the
\* record holds the second and third only.
C14_Witness ==
    /\ Len(text.sections) = 4
    /\ AcceptedAt(text) = 1..4
    /\ WithReadings(text) = 2..4
    /\ text.sections[3].meter # text.sections[4].meter
    /\ Len(runs) >= 1
    /\ Len(runs[1].meters) = 2

\* C15: every meter of a record has a meter number and at least one reading;
\* a section with a valid number and no readings, or with a number shorter
\* than 5 characters, gives no meter.
C15_RetainedHasNumberAndReading ==
    \A a \in DOMAIN runs :
        LET meters == runs[a].meters
        IN /\ \A n \in DOMAIN meters :
                  /\ meters[n].meter_number # <<>>
                  /\ Len(meters[n].meter_number) >= 5
                  /\ \/ meters[n].previous_reading # None
                     \/ meters[n].meter_reading # None
                     \/ meters[n].usage # None
           /\ \E f \in [DOMAIN meters -> AcceptedAt(text) \cap WithReadings(text)] :
                  Placement(f, meters, text)

\* A short number with readings and a valid number without: no meter.
C15_Witness ==
    /\ Len(text.sections) = 3
    /\ Len(text.sections[1].meter) = 2 /\ 1 \in WithReadings(text)
    /\ 2 \in AcceptedAt(text) \ WithReadings(text)
    /\ 3 \in AcceptedAt(text) \cap WithReadings(text)
    /\ Len(runs) >= 1
    /\ Len(runs[1].meters) = 1

\* C16: the extraction call is invoked at most once per submitted document,
\* and once a document has a Failed row it is never extracted again and gets
\* no further row.
C16_NoRetry ==
    [][\A j \in DOMAIN files : \A i \in Docs(j) :
          /\ units'[j][i].calls <= 1
          /\ (\E k \in RowsOf(j, i) : Rows(j)[k].status = FAILED)
                => /\ units'[j][i].calls = units[j][i].calls
                   /\ \A k \in DOMAIN extraction_results'[j] :
                          extraction_results'[j][k].idx = i => k \in RowsOf(j, i)]_vars

\* A document has failed, its job is over, and another job is still running.
C16_Witness ==
    \E j \in DOMAIN pf :
        /\ JobOver(j)
        /\ \E i \in Docs(j) :
               /\ units[j][i].calls = 1
               /\ \E k \in RowsOf(j, i) : Rows(j)[k].status = FAILED
        /\ \E h \in DOMAIN pf : h # j /\ Scheduled(h) # {}

\* C17: every result row is Completed or Failed; it has extracted_data
\* exactly when it is Completed and an error_message exactly when it is
\* Failed; the data of a Completed row names its document's file.
C17_RowShape ==
    \A j \in DOMAIN files : \A k \in DOMAIN Rows(j) :
        LET row == Rows(j)[k]
        IN /\ row.status \in {COMPLETED, FAILED}
           /\ row.extracted_data.present <=> row.status = COMPLETED
           /\ row.error_message # NoMessage <=> row.status = FAILED
           /\ row.status = COMPLETED =>
                  /\ row.extracted_data.source_file = row.filename
                  /\ row.filename = files[j][row.idx]

\* A finished job holds a Completed row and a Failed row.
C17_Witness ==
    \E j \in DOMAIN pf :
        /\ JobOver(j)
        /\ RowsWith(j, COMPLETED) # {}
        /\ RowsWith(j, FAILED) # {}

\* The documents of job j whose unit of work has failed: at staging, or in
\* process_file.
FailedDocs(j) ==
    {i \in Docs(j) : pf[j].stage_failed = i \/ units[j][i].st \in {"failed", "raised"}}

\* C18: a document that failed at staging, extraction, serialization or the
\* write of its result has exactly one Failed row, with a message, and has
\* added one to failed_files.
C18_FailureRecordedOnce ==
    \A j \in DOMAIN pf :
        pf[j].pc = "done" =>
            /\ \A i \in FailedDocs(j) :
                   Cardinality({k \in RowsOf(j, i) :
                                   /\ Rows(j)[k].status = FAILED
                                   /\ Rows(j)[k].error_message # NoMessage}) = 1
            /\ tasks[j].failed_files = Cardinality(FailedDocs(j))

\* C19: when jsonable_encoder fails on a unit's record, the fallback keeps
\* every field that encodes on its own and nulls only the others, and the
\* unit is recorded Completed; only when the fallback fails too is the unit
\* recorded Failed, with the original serialization error as its message.
C19_FallbackDropsOnlyFailing ==
    [][\A j \in DOMAIN files : \A i \in Scheduled(j) \cap Docs(j) :
       units'[j][i].st # "scheduled" =>
       \A ser \in Serializations \ {Encoded} : \A fault \in SUBSET StoreCalls :
          process_file(j, i, "record", ser, fault)
          => LET new == {k \in DOMAIN extraction_results'[j] : k \notin DOMAIN Rows(j)}
                 row(k) == extraction_results'[j][k]
             IN IF ser.recovery = "ok"
                THEN /\ "add_completed" \notin fault =>
                          \E k \in new :
                              /\ row(k).status = COMPLETED
                              /\ row(k).extracted_data.fields = Fields \ ser.bad
                     /\ fault = {} =>
                          /\ units'[j][i].st = "completed"
                          /\ \A k \in new : row(k).status = COMPLETED
                ELSE /\ \A k \in new :
                          /\ row(k).status = FAILED
                          /\ row(k).error_message = "Data serialization failed: json_err"
                     /\ fault = {} => units'[j][i].st = "failed" /\ new # {}]_vars

\* A Completed row that lost a field in the fallback.
C19_Witness ==
    \E j \in DOMAIN files : \E k \in DOMAIN Rows(j) :
        /\ Rows(j)[k].status = COMPLETED
        /\ Rows(j)[k].extracted_data.fields = {"account_number"}
        /\ units[j][Rows(j)[k].idx].st = "completed"

\* The units of job j in which a store call raised: the unit raised out of
\* its except clause, or wrote the store's error as its Failed row's message.
StoreFailedUnits(j) ==
    {i \in Docs(j) :
        \/ units[j][i].st = "raised"
        \/ \E k \in RowsOf(j, i) : Rows(j)[k].error_message = "store error"}

\* C20: a store failure is never dropped: inside a unit it ends as that
\* document's failure (a Failed row, failed_files incremented); in the
\* fan-out path it ends as the job's failure (status Failed, with a message).
C20_StoreFailureRecorded ==
    \A j \in DOMAIN pf :
        pf[j].pc = "done" =>
            /\ \A i \in StoreFailedUnits(j) :
                   /\ \E k \in RowsOf(j, i) : Rows(j)[k].status = FAILED
                   /\ units[j][i].st = "failed"
            /\ (pf[j].error /\ pf[j].stage_failed = 0 /\ StoreFailedUnits(j) = {}) =>
                   /\ tasks[j].status = FAILED
                   /\ tasks[j].error_message # NoMessage

\* C21: an error in the fan-out path of a job (marking it Processing, staging
\* a document, awaiting the units) leaves the job Failed, with the error's
\* message in error_message.
C21_FanOutErrorFailsJob ==
    \A j \in DOMAIN pf :
        pf[j].error =>
            /\ tasks[j].status = FAILED
            /\ tasks[j].error_message # NoMessage

\* C22: the staged file of a unit is its own: from the moment the unit is
\* created until it has run, the path holds the bytes staged for that
\* document, and the bytes the unit reads are those, whatever other units
\* (of the same job or of another) stage, read or remove, and whatever their
\* filenames.
C22_ExclusiveOwnership ==
    \A j \in DOMAIN files : \A i \in Docs(j) :
        /\ units[j][i].st = "scheduled" => uploads[files[j][i]] = Written(j, i)
        /\ units[j][i].st \in {"completed", "failed", "raised"} =>
               units[j][i].src = Written(j, i)

\* C23: a unit whose extraction call never returns stalls only itself: every
\* other unit that is queued can still run, and the fan-out of its job can
\* still create the units of the remaining documents.
C23_HungUnitStallsOnlyItself ==
    \A j \in DOMAIN pf :
        /\ \A i \in Scheduled(j) : ENABLED RunUnit(j, i)
        /\ (pf[j].pc = "write" /\ Resumable(j)) => ENABLED StageWrite(j)
        /\ (pf[j].pc = "gather" /\ Resumable(j) /\ UnitsIn(j, "hung") = {})
               => ENABLED Gather(j)

\* C24: a candidate meter number is accepted exactly when its length is
\* between 5 and 15, it holds a digit, and its letters are at most half of
\* its length; a section whose number is missing or not accepted gives no
\* meter.
C24_AcceptedIff ==
    \A a \in DOMAIN runs :
        LET c == text.sections[1].meter
            digits == Cardinality({k \in DOMAIN c : c[k] \in Digits})
            letters == Cardinality({k \in DOMAIN c : c[k] \in Letters})
            ok == /\ Len(c) >= 5
                  /\ Len(c) <= 15
                  /\ digits >= 1
                  /\ 2 * letters <= Len(c)
        IN /\ is_valid_meter_number(c) <=> ok
           /\ Len(runs[a].meters) = (IF ok THEN 1 ELSE 0)
           /\ ok => runs[a].meters[1].meter_number = c

\* A number of 6 characters, 3 of them letters, was accepted.
C24_Witness ==
    /\ text.sections[1].meter = Candidate(3, 3, 0)
    /\ Len(runs) >= 1
    /\ Len(runs[1].meters) = 1

\* C25: the value of a field is the first non-empty capture: that of the
\* first match with a non-empty capture of the earliest pattern that has
\* one, and the field is absent only when no pattern has one.
C25_FirstNonEmptyCapture ==
    \A a \in DOMAIN runs :
        LET NonEmpty(p) == {k \in DOMAIN text[p] : strip[text[p][k]] # ""}
            yields == {p \in DOMAIN text : NonEmpty(p) # {}}
        IN IF yields = {} THEN runs[a] \in {NoValue, Some("")}
           ELSE LET p == CHOOSE q \in yields : \A r \in yields : q <= r
                    k == CHOOSE m \in NonEmpty(p) : \A n \in NonEmpty(p) : m <= n
                IN runs[a] = Some(strip[text[p][k]])

\* Position of a status on Pending -> Processing -> {Completed, Failed}.
Rank(status) == IF status = PENDING THEN 0 ELSE IF status = PROCESSING THEN 1 ELSE 2

\* C26: a job's status only moves forward: no step takes it back to Pending
\* or Processing, and no step changes a Completed or Failed status.
C26_StatusForwardOnly ==
    [][\A j \in DOMAIN tasks :
          /\ Rank(tasks'[j].status) >= Rank(tasks[j].status)
          /\ Terminal(tasks[j].status) => tasks'[j].status = tasks[j].status]_vars

\* A job is Failed by its fan-out after one of its units had completed, and
\* another job is still being worked on.
C26_Witness ==
    \E j, h \in DOMAIN pf :
        /\ tasks[j].status = FAILED
        /\ tasks[j].processed_files >= 1
        /\ tasks[h].status = PROCESSING
        /\ Scheduled(h) # {}

\* No store write has failed so far: every failure counted is the failed
\* staging of a job, and every except clause recorded its error.
StoreWritesSucceeded ==
    /\ faults = Cardinality({j \in DOMAIN pf : pf[j].stage_failed # 0})
    /\ \A j \in DOMAIN pf : ~pf[j].unrecorded

\* C27: when every extraction call returns and every store write succeeds,
\* a job ends in a terminal status with processed_files + failed_files =
\* total_files: once its coroutine and its units are over, that is its state.
C27_JobEndsCounted ==
    \A j \in DOMAIN pf :
        (JobOver(j) /\ StoreWritesSucceeded) =>
            /\ Terminal(tasks[j].status)
            /\ Sum(tasks[j]) = tasks[j].total_files

\* C28: once a job's status is terminal its processed_files, failed_files
\* and rows never change again, and it has exactly total_files rows.
C28_TerminalIsFinal ==
    [][\A j \in DOMAIN tasks :
          Terminal(tasks[j].status) =>
              /\ tasks'[j].processed_files = tasks[j].processed_files
              /\ tasks'[j].failed_files = tasks[j].failed_files
              /\ extraction_results'[j] = extraction_results[j]
              /\ Len(extraction_results[j]) = tasks[j].total_files]_vars

\* C29: between units (a unit runs its result write and its increment in
\* one step of the event loop) the number of Completed rows of a job is
\* its processed_files and the number of Failed rows its failed_files,
\* store failures included.
C29_RowsMatchCounters ==
    \A j \in DOMAIN tasks :
        /\ Cardinality(RowsWith(j, COMPLETED)) = tasks[j].processed_files
        /\ Cardinality(RowsWith(j, FAILED)) = tasks[j].failed_files

\* C30: every section among the first 3 accepted whose readings line is
\* matched gives a meter of the record with its three readings, whatever
\* their values, a triple of zeros included.
C30_MatchedTripleYieldsMeter ==
    \A a \in DOMAIN runs :
        \A k \in FirstAccepted(text) \cap WithReadings(text) :
            \E n \in DOMAIN runs[a].meters :
                /\ runs[a].meters[n].meter_number = text.sections[k].meter
                /\ <<runs[a].meters[n].previous_reading,
                      runs[a].meters[n].meter_reading,
                      runs[a].meters[n].usage>> = text.sections[k].readings

====
